---- MODULE Spec2Model ----
(***************************************************************************)
(* A state-machine model of the generative MIDI sequencer: the pitch       *)
(* producers and the scale quantizer (pitch.rs), the trigger producers and *)
(* the rhythm divider (trigger.rs), and the facade, the command channel    *)
(* and the engine thread's tick (sequencer.rs).                            *)
(*                                                                         *)
(* Conventions.  A pitch is a LetterOctave record; a Letter is modelled by *)
(* its semitone 0..11 above C (enharmonic spellings identified) and the    *)
(* order of letters is the order of semitones.  A Step is an integer       *)
(* number of semitones with C-1 = 0, so that step() is the MIDI note.      *)
(* f32 arithmetic of the producers is taken exactly and rounded half away  *)
(* from zero, as Step(x).to_letter_octave() rounds.  Every tick operator   *)
(* returns the SET of its possible outcomes, each a record                 *)
(* [panic, self, out]: panic says the call unwinds, self is the producer   *)
(* after the call, out is the value returned.                              *)
(***************************************************************************)
EXTENDS Integers, Sequences, FiniteSets, TLC

(* ------------------------------------------------------------------ *)
(* Program constants                                                      *)
(* ------------------------------------------------------------------ *)
NOTE_ON_MSG == 144
NOTE_OFF_MSG == 128
PROGRAM_CHANGE_MSG == 192
VELOCITY == 100
BPM == 60
TICKS_PER_QUARTER_NOTE == 40
RANDOM_PROBABILITY == 1
\* (60_000.0 / BPM / TICKS_PER_QUARTER_NOTE as f32) as i64, in ms.
SCHEDULE_REPEATING_DURATION == (60000 \div BPM) \div TICKS_PER_QUARTER_NOTE

(* ------------------------------------------------------------------ *)
(* Bounds of the model                                                    *)
(* ------------------------------------------------------------------ *)
\* Number of commands the facade sends in one run.
MaxSent == 2
\* Longest rhythm pattern the facade sends.
MaxPatternLen == 2
\* Cap on a pitch producer's counter (only a counter that has left its
\* cycle, after a zero cycle length, ever reaches it).
MaxCounter == 3
\* Cap on the rhythm divider's per-slot note counter.
MaxBeatNote == 3

(* ------------------------------------------------------------------ *)
(* Pitches                                                                *)
(* ------------------------------------------------------------------ *)
Letters == 0..11

LetterOctave(l, o) == [letter |-> l, octave |-> o]

\* LetterOctave::step: semitones above C-1.
step(p) == 12 * (p.octave + 1) + p.letter

\* Step(s).to_letter_octave() for an integral s >= 0.
to_letter_octave(s) == LetterOctave(s % 12, (s \div 12) - 1)

\* f32::round of num/den for num >= 0, den > 0 (half away from zero).
Round(num, den) == (2 * num + den) \div (2 * den)

Outcome(p, s, o) == [panic |-> p, self |-> s, out |-> o]

NoPitch == LetterOctave(0, -1)

(* ------------------------------------------------------------------ *)
(* pitch.rs: the pitch producers                                          *)
(* ------------------------------------------------------------------ *)
\* A producer is [type, cycle_length, min, max, counter]; min and max are
\* steps.  RandomPitchProducer has neither cycle_length nor counter: they
\* are kept at 0.
RandomPitchProducer_new(min, max) ==
    [type |-> "Random", cycle_length |-> 0, min |-> step(min), max |-> step(max), counter |-> 0]

RampPitchProducer_new(cycle_length, min, max) ==
    [type |-> "RampUp", cycle_length |-> cycle_length, min |-> step(min),
     max |-> step(max), counter |-> 0]

SquarePitchProducer_new(cycle_length, min, max) ==
    [type |-> "Square", cycle_length |-> cycle_length, min |-> step(min),
     max |-> step(max), counter |-> 0]

SinePitchProducer_new(cycle_length, min, max) ==
    [type |-> "Sine", cycle_length |-> cycle_length, min |-> step(min),
     max |-> step(max), counter |-> 0]

\* gen_range(min..max) is drawn from the half-open range and then rounded:
\* every step of min..max can come out.  An empty range (min > max) panics.
RandomPitchProducer_tick(self) ==
    IF self.min # self.max
    THEN IF self.min > self.max
         THEN {Outcome(TRUE, self, NoPitch)}
         ELSE {Outcome(FALSE, self, to_letter_octave(r)) : r \in self.min..self.max}
    ELSE {Outcome(FALSE, self, to_letter_octave(self.min))}

\* A ramp that runs from max down to min.
RampPitchProducer_tick_descending(self) ==
    LET n == self.cycle_length
        value == IF n > 1
                 THEN Round(self.max * (n - 1) - (self.max - self.min) * self.counter, n - 1)
                 ELSE self.min
        at_last == n > 0 /\ self.counter = n - 1
    IN  {Outcome(FALSE, [self EXCEPT !.counter = IF at_last THEN 0 ELSE self.counter + 1],
                 to_letter_octave(value))}

\* A ramp whose counter wraps one tick late, on reaching cycle_length.
RampPitchProducer_tick_wraps_late(self) ==
    LET n == self.cycle_length
        value == IF n > 1
                 THEN Round(self.min * (n - 1) + (self.max - self.min) * self.counter, n - 1)
                 ELSE self.min
    IN  {Outcome(FALSE, [self EXCEPT !.counter = IF self.counter = n THEN 0 ELSE self.counter + 1],
                 to_letter_octave(value))}

\* cycle_length - 1 underflows for cycle_length = 0: the checked build
\* panics, the unchecked build wraps to u32::MAX, which no counter below
\* MaxCounter equals.
RampPitchProducer_tick(self) ==
    LET n == self.cycle_length
        value == IF n > 1
                 THEN Round(self.min * (n - 1) + (self.max - self.min) * self.counter, n - 1)
                 ELSE self.min
        pitch == to_letter_octave(value)
        at_last == n > 0 /\ self.counter = n - 1
        next == IF at_last THEN 0 ELSE self.counter + 1
    IN  {Outcome(FALSE, [self EXCEPT !.counter = next], pitch)}
        \cup (IF n = 0 THEN {Outcome(TRUE, self, NoPitch)} ELSE {})

\* A square wave that holds min for the larger half of an odd cycle.
SquarePitchProducer_tick_rounds_up(self) ==
    LET c == self.counter + 1
    IN  IF c <= (self.cycle_length + 1) \div 2 /\ c < self.cycle_length
        THEN {Outcome(FALSE, [self EXCEPT !.counter = c], to_letter_octave(self.min))}
        ELSE {Outcome(FALSE,
                      [self EXCEPT !.counter = IF c = self.cycle_length THEN 0 ELSE c],
                      to_letter_octave(self.max))}

SquarePitchProducer_tick(self) ==
    LET c == self.counter + 1
    IN  IF c <= self.cycle_length \div 2
        THEN {Outcome(FALSE, [self EXCEPT !.counter = c], to_letter_octave(self.min))}
        ELSE {Outcome(FALSE,
                      [self EXCEPT !.counter = IF c = self.cycle_length THEN 0 ELSE c],
                      to_letter_octave(self.max))}

\* A sine that starts at its lowest point.
SinePitchProducer_tick_starts_at_min(self) ==
    LET lo == IF self.min <= self.max THEN self.min ELSE self.max
        hi == IF self.min <= self.max THEN self.max ELSE self.min
        values == IF self.counter = 0 THEN {lo} ELSE lo..hi
    IN  IF self.cycle_length = 0
        THEN {Outcome(TRUE, self, NoPitch)}
        ELSE {Outcome(FALSE,
                      [self EXCEPT !.counter = (self.counter + 1) % self.cycle_length],
                      to_letter_octave(v)) : v \in values}

\* sin is not computed: at phase 0 the normalized sine is exactly 0.5; at
\* any other phase the value is some step between min and max.  The
\* remainder by a zero cycle length panics.
SinePitchProducer_tick(self) ==
    LET lo == IF self.min <= self.max THEN self.min ELSE self.max
        hi == IF self.min <= self.max THEN self.max ELSE self.min
        values == IF self.counter = 0 THEN {Round(self.min + self.max, 2)} ELSE lo..hi
    IN  IF self.cycle_length = 0
        THEN {Outcome(TRUE, self, NoPitch)}
        ELSE {Outcome(FALSE,
                      [self EXCEPT !.counter = (self.counter + 1) % self.cycle_length],
                      to_letter_octave(v)) : v \in values}

\* Dynamic dispatch of PitchModule::tick over the wrapped producer.
PitchModule_tick(self) ==
    CASE self.type = "Random" -> RandomPitchProducer_tick(self)
      [] self.type = "RampUp" -> RampPitchProducer_tick(self)
      [] self.type = "Square" -> SquarePitchProducer_tick(self)
      [] self.type = "Sine" -> SinePitchProducer_tick(self)

(* ------------------------------------------------------------------ *)
(* pitch.rs: the scale quantizer                                          *)
(* ------------------------------------------------------------------ *)
PitchQuantizer_new(input, scale) == [input |-> input, scale |-> scale]

\* A quantizer that scans the scale in the order it was given.
scale_sort_skipped(scale) == scale

\* Vec::sort on the scale.
scale_sort(scale) == SortSeq(scale, LAMBDA a, b : a < b)

\* The for loop over the sorted scale: the index of the first entry that
\* is equal to or greater than the letter, 0 when the loop falls through.
RECURSIVE quantizer_scan(_, _, _)
quantizer_scan(scale, i, letter) ==
    IF i > Len(scale) THEN 0
    ELSE IF scale[i] = letter \/ scale[i] > letter THEN i
    ELSE quantizer_scan(scale, i + 1, letter)

\* A quantizer whose wrap-around stays in the octave of the input.
quantizer_snap_wraps_in_octave(scale, unquantized_note) ==
    LET sorted == scale_sort(scale)
        i == quantizer_scan(sorted, 1, unquantized_note.letter)
    IN  IF i > 0
        THEN [panic |-> FALSE, scale |-> sorted,
              out |-> IF sorted[i] = unquantized_note.letter
                      THEN unquantized_note
                      ELSE LetterOctave(sorted[i], unquantized_note.octave)]
        ELSE IF Len(sorted) = 0
             THEN [panic |-> TRUE, scale |-> sorted, out |-> NoPitch]
             ELSE [panic |-> FALSE, scale |-> sorted,
                   out |-> LetterOctave(sorted[1], unquantized_note.octave)]

\* The body of PitchQuantizer::tick after the wrapped producer's tick:
\* [panic, scale, out] for the scale as stored and the unquantized note.
quantizer_snap(scale, unquantized_note) ==
    LET sorted == scale_sort(scale)
        i == quantizer_scan(sorted, 1, unquantized_note.letter)
    IN  IF i > 0
        THEN [panic |-> FALSE, scale |-> sorted,
              out |-> IF sorted[i] = unquantized_note.letter
                      THEN unquantized_note
                      ELSE LetterOctave(sorted[i], unquantized_note.octave)]
        ELSE IF Len(sorted) = 0
             THEN [panic |-> TRUE, scale |-> sorted, out |-> NoPitch]
             ELSE [panic |-> FALSE, scale |-> sorted,
                   out |-> LetterOctave(sorted[1], unquantized_note.octave + 1)]

PitchQuantizer_tick(self) ==
    { IF r.panic
      THEN Outcome(TRUE, self, NoPitch)
      ELSE LET q == quantizer_snap(self.scale, r.out)
           IN  Outcome(q.panic, [input |-> r.self, scale |-> q.scale], q.out)
      : r \in PitchModule_tick(self.input) }

(* ------------------------------------------------------------------ *)
(* trigger.rs                                                             *)
(* ------------------------------------------------------------------ *)
Trigger_from_bool(b) == IF b THEN "On" ELSE "Off"

\* rng.gen_bool(p): always true for p = 1, never for p = 0.
gen_bool(p) == IF p >= 1 THEN {TRUE} ELSE IF p <= 0 THEN {FALSE} ELSE BOOLEAN

RandomTriggerProducer_tick == {Trigger_from_bool(b) : b \in gen_bool(RANDOM_PROBABILITY)}

RhythmDivider_new(factor, notes_per_beat) ==
    [factor |-> factor, counter |-> 0, notes_per_beat |-> notes_per_beat,
     current_beat_index |-> 0, current_beat_note |-> 0]

\* A note boundary every floor(factor / notes_per_beat) raw ticks.
couter_calculation_floor(counter, factor, notes_per_beat) ==
    IF counter = 0 /\ counter = factor THEN "true"
    ELSE IF notes_per_beat = 0 THEN "panic"
    ELSE IF factor \div notes_per_beat = 0 THEN "panic"
    ELSE IF counter % (factor \div notes_per_beat) = 0 THEN "true"
    ELSE "false"

\* "true" or "false", or "panic" for a division or a remainder by zero.
couter_calculation(counter, factor, notes_per_beat) ==
    IF counter = 0 /\ counter = factor THEN "true"
    ELSE IF notes_per_beat = 0 THEN "panic"
    ELSE IF (factor + notes_per_beat - 1) \div notes_per_beat = 0 THEN "panic"
    ELSE IF counter % ((factor + notes_per_beat - 1) \div notes_per_beat) = 0 THEN "true"
    ELSE "false"

\* A slot advance that wraps one slot early.
RhythmDivider_advance_wraps_early(self) ==
    IF self.current_beat_note = self.notes_per_beat[self.current_beat_index + 1]
       /\ self.counter = self.factor
    THEN [self EXCEPT !.current_beat_index = IF self.current_beat_index = 2 THEN 0
                                             ELSE self.current_beat_index + 1,
                      !.current_beat_note = 0]
    ELSE self

\* The slot advance at the head of RhythmDivider::tick.
RhythmDivider_advance(self) ==
    IF self.current_beat_note = self.notes_per_beat[self.current_beat_index + 1]
       /\ self.counter = self.factor
    THEN [self EXCEPT !.current_beat_index = IF self.current_beat_index = 3 THEN 0
                                             ELSE self.current_beat_index + 1,
                      !.current_beat_note = 0]
    ELSE self

\* Outcomes carry polled: whether the wrapped producer was ticked.
RhythmDivider_tick(self) ==
    LET s == RhythmDivider_advance(self)
        boundary == couter_calculation(s.counter, s.factor,
                                       s.notes_per_beat[s.current_beat_index + 1])
    IN  IF boundary = "panic"
        THEN {[panic |-> TRUE, self |-> s, out |-> "Off", polled |-> FALSE]}
        ELSE IF boundary = "true"
             THEN {[panic |-> FALSE,
                    self |-> [s EXCEPT !.counter = 1,
                                       !.current_beat_note = s.current_beat_note + 1],
                    out |-> t, polled |-> TRUE] : t \in RandomTriggerProducer_tick}
             ELSE {[panic |-> FALSE, self |-> [s EXCEPT !.counter = s.counter + 1],
                    out |-> "Off", polled |-> FALSE]}

(* ------------------------------------------------------------------ *)
(* sequencer.rs: configurations and commands                              *)
(* ------------------------------------------------------------------ *)
DefaultConfig ==
    [min_pitch |-> LetterOctave(10, 3), max_pitch |-> LetterOctave(1, 4),
     pitch_producer_type |-> "RampUp", cycle_length |-> 2,
     rhythm_pattern |-> <<0, 0>>, notes_per_beat |-> <<1, 1, 1, 1>>,
     instrument |-> 10, quantizer_scale |-> <<4, 0>>, bpm |-> 600]

\* Configurations the caller may pass: the default, one per producer type,
\* and the three the design calls configuration errors (an empty range,
\* a zero cycle length, an empty scale).
PitchConfigs ==
    {DefaultConfig,
     [DefaultConfig EXCEPT !.pitch_producer_type = "Square"],
     [DefaultConfig EXCEPT !.pitch_producer_type = "Sine"],
     [DefaultConfig EXCEPT !.pitch_producer_type = "Random", !.quantizer_scale = <<0>>],
     [DefaultConfig EXCEPT !.pitch_producer_type = "Random",
                           !.min_pitch = LetterOctave(1, 4), !.max_pitch = LetterOctave(10, 3)],
     [DefaultConfig EXCEPT !.cycle_length = 0],
     [DefaultConfig EXCEPT !.quantizer_scale = <<>>]}

TriggerConfigs ==
    {DefaultConfig,
     [DefaultConfig EXCEPT !.bpm = 1200, !.notes_per_beat = <<2, 1, 1, 1>>]}

Instruments == {10, 11}

\* NoteDurationLetter as usize; the durations themselves are not modelled,
\* one letter stands for all.
DurationLetters == {0}

RECURSIVE SeqsUpTo(_, _)
SeqsUpTo(S, n) ==
    IF n = 0 THEN {<<>>}
    ELSE LET shorter == SeqsUpTo(S, n - 1)
         IN  shorter \cup {Append(s, x) : s \in {t \in shorter : Len(t) = n - 1}, x \in S}

RhythmPatterns == SeqsUpTo(DurationLetters, MaxPatternLen)

\* A SequencerCommand with the position it was sent at (id, for the
\* order of delivery only).
Command(type, arg, id) == [type |-> type, arg |-> arg, id |-> id]

NoCommand == Command("None", 0, 0)

Sequencer_build_pitch_producer(config) ==
    LET pitch_producer ==
            CASE config.pitch_producer_type = "Random" ->
                     RandomPitchProducer_new(config.min_pitch, config.max_pitch)
              [] config.pitch_producer_type = "RampUp" ->
                     RampPitchProducer_new(config.cycle_length, config.min_pitch, config.max_pitch)
              [] config.pitch_producer_type = "Square" ->
                     SquarePitchProducer_new(config.cycle_length, config.min_pitch, config.max_pitch)
              [] config.pitch_producer_type = "Sine" ->
                     SinePitchProducer_new(config.cycle_length, config.min_pitch, config.max_pitch)
    IN  PitchQuantizer_new(pitch_producer, config.quantizer_scale)

\* The division panics for a tempo that truncates to 0; no configuration
\* of TriggerConfigs does.
Sequencer_build_trigger_producer(config) ==
    RhythmDivider_new((TICKS_PER_QUARTER_NOTE * BPM) \div config.bpm, config.notes_per_beat)

SequencerThread_new(pitch_producer, trigger_producer, is_playing, instrument, tempo, rhythm_pattern) ==
    [pitch_producer |-> pitch_producer, trigger_producer |-> trigger_producer,
     is_playing |-> is_playing, instrument |-> instrument, tempo |-> tempo,
     rhythm_pattern |-> rhythm_pattern, current_rhythm_index |-> 0]

(* ------------------------------------------------------------------ *)
(* sequencer.rs: the channel                                              *)
(* ------------------------------------------------------------------ *)
\* mpsc::Sender::send: the command goes to the back of the queue.
channel_send(queue, command) == Append(queue, command)

\* A channel that hands out the newest command first.
channel_try_recv_newest(queue) ==
    [command |-> queue[Len(queue)], rest |-> SubSeq(queue, 1, Len(queue) - 1)]

\* One step of receiver.try_iter(): the command at the front of the queue.
channel_try_recv(queue) == [command |-> Head(queue), rest |-> Tail(queue)]

(* ------------------------------------------------------------------ *)
(* sequencer.rs: SequencerThread::tick                                    *)
(* ------------------------------------------------------------------ *)
\* A Stop that is ignored.
apply_Stop_ignored(self) == self

\* A Stop that also rewinds the rhythm pattern.
apply_Stop_rewinds(self) ==
    [self EXCEPT !.is_playing = FALSE, !.current_rhythm_index = 0]

\* A pitch-producer swap that also restarts the rhythm divider.
apply_SetPitchProducer_restarts(self, pp) ==
    [self EXCEPT !.pitch_producer = pp,
                 !.trigger_producer = RhythmDivider_new(self.trigger_producer.factor,
                                                        self.trigger_producer.notes_per_beat)]

\* A tempo change that also rebuilds the rhythm divider for the new tempo.
apply_SetTempo_rebuilds(self, t) ==
    [self EXCEPT !.tempo = t,
                 !.trigger_producer = RhythmDivider_new((TICKS_PER_QUARTER_NOTE * BPM) \div t,
                                                        self.trigger_producer.notes_per_beat)]

\* A pattern swap that keeps the play position.
apply_SetRhythmPattern_keeps_position(self, rp) == [self EXCEPT !.rhythm_pattern = rp]

apply_Start(self) ==
    IF ~self.is_playing THEN [self EXCEPT !.is_playing = TRUE] ELSE self

apply_Stop(self) ==
    IF self.is_playing THEN [self EXCEPT !.is_playing = FALSE] ELSE self

apply_SetPitchProducer(self, pp) == [self EXCEPT !.pitch_producer = pp]

apply_SetTriggerProducer(self, tp) == [self EXCEPT !.trigger_producer = tp]

apply_SetInstrument(self, i) == [self EXCEPT !.instrument = i]

apply_SetRhythmPattern(self, rp) ==
    [self EXCEPT !.rhythm_pattern = rp, !.current_rhythm_index = 0]

apply_SetTempo(self, t) == [self EXCEPT !.tempo = t]

\* The match of the drain loop.
apply_command(self, command) ==
    CASE command.type = "Start" -> apply_Start(self)
      [] command.type = "Stop" -> apply_Stop(self)
      [] command.type = "SetPitchProducer" -> apply_SetPitchProducer(self, command.arg)
      [] command.type = "SetTriggerProducer" -> apply_SetTriggerProducer(self, command.arg)
      [] command.type = "SetInstrument" -> apply_SetInstrument(self, command.arg)
      [] command.type = "SetRhythmPattern" -> apply_SetRhythmPattern(self, command.arg)
      [] command.type = "SetTempo" -> apply_SetTempo(self, command.arg)

program_change(instrument) == <<PROGRAM_CHANGE_MSG, instrument>>
note_on(note) == <<NOTE_ON_MSG, note, VELOCITY>>
note_off(note) == <<NOTE_OFF_MSG, note, VELOCITY>>

\* What a step of the tick leaves: the engine's place, the thread, the
\* pitch and the trigger of this tick, the messages sent in this tick.
TickResult(place, self, p, t, sent) ==
    [pc |-> place, thread |-> self, pitch |-> p, trigger |-> t, midi |-> sent]

\* A Trigger::On arm that goes on to the sleep whether its sends failed or
\* not.
tick_fire_ignores_errors(self, p) ==
    LET note == step(p)
        pc_msg == <<program_change(self.instrument)>>
        on_msg == Append(pc_msg, note_on(note))
    IN  {IF self.current_rhythm_index < Len(self.rhythm_pattern)
         THEN TickResult("sleep", self, p, "On", sent)
         ELSE TickResult("panicked", self, p, "On", sent)
         : sent \in {<<>>, pc_msg, on_msg}}

\* A Trigger::On arm that returns after the note on and leaves the note
\* sounding: no sleep, no note off.
tick_fire_returns(self, p) ==
    LET note == step(p)
        pc_msg == <<program_change(self.instrument)>>
        on_msg == Append(pc_msg, note_on(note))
    IN  {TickResult("panicked", self, p, "On", <<>>)}
        \cup {TickResult("panicked", self, p, "On", pc_msg)}
        \cup {IF self.current_rhythm_index < Len(self.rhythm_pattern)
              THEN TickResult("idle", self, p, "On", on_msg)
              ELSE TickResult("panicked", self, p, "On", on_msg)}

\* The Trigger::On arm up to the sleep: program change, note on, the read
\* of the current rhythm-pattern entry.  MidiOutputConnection::send returns
\* Ok or Err and unwrap panics on Err: the first send may fail, or the
\* second, or neither.
tick_fire(self, p) ==
    LET note == step(p)
        pc_msg == <<program_change(self.instrument)>>
        on_msg == Append(pc_msg, note_on(note))
    IN  {TickResult("panicked", self, p, "On", <<>>)}
        \cup {TickResult("panicked", self, p, "On", pc_msg)}
        \cup {IF self.current_rhythm_index < Len(self.rhythm_pattern)
              THEN TickResult("sleep", self, p, "On", on_msg)
              ELSE TickResult("panicked", self, p, "On", on_msg)}

\* A tick that fires only for a pitch off C.
tick_play_pitch_gated(self) ==
    IF ~self.is_playing
    THEN {TickResult("idle", self, NoPitch, "None", <<>>)}
    ELSE UNION {
           IF p.panic
           THEN {TickResult("panicked", self, NoPitch, "None", <<>>)}
           ELSE UNION {
                  LET s == [self EXCEPT !.pitch_producer = p.self, !.trigger_producer = t.self]
                  IN  IF t.panic
                      THEN {TickResult("panicked", s, p.out, "None", <<>>)}
                      ELSE IF t.out = "On" /\ p.out.letter # 0
                           THEN tick_fire(s, p.out)
                           ELSE {TickResult("idle", s, p.out, "Off", <<>>)}
                  : t \in RhythmDivider_tick(self.trigger_producer) }
           : p \in PitchQuantizer_tick(self.pitch_producer) }

\* A tick that ticks the producers while paused and plays only when playing.
tick_play_ticks_paused(self) ==
    UNION {
      IF p.panic
      THEN {TickResult("panicked", self, NoPitch, "None", <<>>)}
      ELSE UNION {
             LET s == [self EXCEPT !.pitch_producer = p.self, !.trigger_producer = t.self]
             IN  IF t.panic
                 THEN {TickResult("panicked", s, p.out, "None", <<>>)}
                 ELSE IF t.out = "On" /\ self.is_playing
                      THEN tick_fire(s, p.out)
                      ELSE {TickResult("idle", s, IF self.is_playing THEN p.out ELSE NoPitch,
                                       IF self.is_playing THEN "Off" ELSE "None", <<>>)}
             : t \in RhythmDivider_tick(self.trigger_producer) }
      : p \in PitchQuantizer_tick(self.pitch_producer) }

\* "if self.is_playing { ... }" up to the sleep of a fired note.
tick_play(self) ==
    IF ~self.is_playing
    THEN {TickResult("idle", self, NoPitch, "None", <<>>)}
    ELSE UNION {
           IF p.panic
           THEN {TickResult("panicked", self, NoPitch, "None", <<>>)}
           ELSE UNION {
                  LET s == [self EXCEPT !.pitch_producer = p.self, !.trigger_producer = t.self]
                  IN  IF t.panic
                      THEN {TickResult("panicked", s, p.out, "None", <<>>)}
                      ELSE IF t.out = "On"
                           THEN tick_fire(s, p.out)
                           ELSE {TickResult("idle", s, p.out, "Off", <<>>)}
                  : t \in RhythmDivider_tick(self.trigger_producer) }
           : p \in PitchQuantizer_tick(self.pitch_producer) }

\* A note off that leaves the play position where it is.
tick_note_off_no_advance(self, p, sent) ==
    {TickResult("panicked", self, p, "On", sent),
     TickResult("idle", self, p, "On", Append(sent, note_off(step(p))))}

\* After the sleep: note off (the send may fail), then the play position
\* advances.
tick_note_off(self, p, sent) ==
    LET note == step(p)
    IN  {TickResult("panicked", self, p, "On", sent),
         TickResult("idle",
                    [self EXCEPT !.current_rhythm_index =
                         (self.current_rhythm_index + 1) % Len(self.rhythm_pattern)],
                    p, "On", Append(sent, note_off(note)))}

(* ------------------------------------------------------------------ *)
(* The engine and its caller as a state machine                           *)
(* ------------------------------------------------------------------ *)
VARIABLES
    receiver,      \* the commands in the channel, oldest first
    thread,        \* the SequencerThread
    pc,            \* the engine: "idle", "drain", "sleep" (a note sounds), "panicked"
    caller,        \* the facade's caller: [pc, bpm]; pc is "ready", "tempo"
                   \* (between the two sends of update_trigger_producer) or "panicked"
    pitch,         \* the pitch of the current tick (NoPitch before it is produced)
    trigger,       \* the trigger of the current tick: "None", "On", "Off"
    midi,          \* the MIDI messages sent in the current tick
    timer,         \* the period of the repeating timer, in ms
    nsent,         \* history: number of commands sent
    applied        \* history: the commands applied, oldest first, each with
                   \* the play position it found: [command, index]

engine_vars == <<receiver, thread, pc, caller, pitch, trigger, midi, timer, nsent, applied>>

last_applied == IF applied = <<>> THEN NoCommand ELSE applied[Len(applied)].command

\* The state of the quantizer checked alone.
VARIABLES
    quantizer,     \* the PitchQuantizer
    q_in,          \* the pitch its wrapped producer yields
    q_out,         \* the pitch its last tick returned
    q_pc           \* "new", "ticked" or "panicked"

quantizer_vars == <<quantizer, q_in, q_out, q_pc>>

\* The state of the rhythm divider checked alone.
VARIABLES
    divider,       \* the RhythmDivider
    d_pc,          \* "running" or "panicked"
    d_log          \* history: per tick, [polled, slot, notes, counter, out]

divider_vars == <<divider, d_pc, d_log>>

\* The state of one engine run from construction, ticked whole.
VARIABLES
    run,           \* [thread, receiver, pc, pitch, midi, started, timer]
    played         \* history: [ons, offs], the note-on messages sent (each with
                   \* the ramp counter its pitch was made from) and the
                   \* notes of the note-off messages sent

run_vars == <<run, played>>

\* The state of a pitch producer checked alone.
VARIABLES
    producer,      \* the producer
    p_pc,          \* "new", "ticked" or "panicked"
    p_sin,         \* for a sine: the step its f32 arithmetic comes to at each
                   \* counter above 0 (not computed; the same whenever the
                   \* counter comes again)
    p_log          \* history: per tick, [out, counter]: the step returned
                   \* and the counter after the tick

producer_vars == <<producer, p_pc, p_sin, p_log>>

\* Two engines that differ in their pitch producers only, run side by side.
VARIABLES
    twin           \* [a, b]: each [thread, pc, pitch, trigger, midi, entered,
                   \* ticked]; entered is the thread as the last tick's drain
                   \* left it, ticked says that a tick has run

twin_vars == <<twin>>

vars == <<engine_vars, quantizer_vars, divider_vars, run_vars, producer_vars, twin_vars>>

\* What the engine and its caller leave alone.
apart == <<quantizer_vars, divider_vars, run_vars, producer_vars, twin_vars>>

\* A timer whose period follows the configured tempo.
Timer_schedule_repeating_from_tempo(config) ==
    (60000 \div config.bpm) \div TICKS_PER_QUARTER_NOTE

\* timer.schedule_repeating(Duration::milliseconds(..), ..) in
\* Sequencer::new: the period it is given.
Timer_schedule_repeating(config) == SCHEDULE_REPEATING_DURATION

\* Sequencer::new(config, is_playing).
Sequencer_new(config, is_playing) ==
    SequencerThread_new(Sequencer_build_pitch_producer(config),
                        Sequencer_build_trigger_producer(config),
                        is_playing, config.instrument, config.bpm, config.rhythm_pattern)

EngineInit ==
    /\ \E is_playing \in BOOLEAN : thread = Sequencer_new(DefaultConfig, is_playing)
    /\ receiver = <<>>
    /\ pc = "idle"
    /\ caller = [pc |-> "ready", bpm |-> 0]
    /\ pitch = NoPitch
    /\ trigger = "None"
    /\ midi = <<>>
    /\ timer = Timer_schedule_repeating(DefaultConfig)
    /\ nsent = 0
    /\ applied = <<>>

\* sender.send(command).unwrap(): once the engine thread has panicked the
\* receiver is gone, send returns Err and the caller panics.
Send(type, arg, next_pc) ==
    /\ nsent < MaxSent
    /\ IF pc = "panicked"
       THEN /\ caller' = [caller EXCEPT !.pc = "panicked"]
            /\ UNCHANGED <<receiver, nsent>>
       ELSE /\ receiver' = channel_send(receiver, Command(type, arg, nsent + 1))
            /\ nsent' = nsent + 1
            /\ caller' = next_pc
    /\ UNCHANGED <<thread, pc, pitch, trigger, midi, timer, applied, apart>>

Ready == [caller EXCEPT !.pc = "ready"]

Sequencer_start ==
    /\ caller.pc = "ready"
    /\ Send("Start", 0, Ready)

Sequencer_stop ==
    /\ caller.pc = "ready"
    /\ Send("Stop", 0, Ready)

Sequencer_update_instrument ==
    /\ caller.pc = "ready"
    /\ \E instrument \in Instruments : Send("SetInstrument", instrument, Ready)

Sequencer_update_rhythm_pattern ==
    /\ caller.pc = "ready"
    /\ \E rhythm_pattern \in RhythmPatterns : Send("SetRhythmPattern", rhythm_pattern, Ready)

Sequencer_update_pitch_producer ==
    /\ caller.pc = "ready"
    /\ \E config \in PitchConfigs :
           Send("SetPitchProducer", Sequencer_build_pitch_producer(config), Ready)

\* update_trigger_producer is two sends: the engine may drain between them.
Sequencer_update_trigger_producer ==
    /\ caller.pc = "ready"
    /\ \E config \in TriggerConfigs :
           Send("SetTriggerProducer", Sequencer_build_trigger_producer(config),
                [pc |-> "tempo", bpm |-> config.bpm])

Sequencer_update_trigger_producer_tempo ==
    /\ caller.pc = "tempo"
    /\ Send("SetTempo", caller.bpm, Ready)

\* The timer calls tick().
TimerFire ==
    /\ pc = "idle"
    /\ pc' = "drain"
    /\ pitch' = NoPitch
    /\ trigger' = "None"
    /\ midi' = <<>>
    /\ UNCHANGED <<receiver, thread, caller, timer, nsent, applied, apart>>

\* One iteration of "for command in self.receiver.try_iter()".
Drain ==
    /\ pc = "drain"
    /\ receiver # <<>>
    /\ LET got == channel_try_recv(receiver)
       IN  /\ receiver' = got.rest
           /\ thread' = apply_command(thread, got.command)
           /\ applied' = Append(applied, [command |-> got.command,
                                           index |-> thread.current_rhythm_index])
    /\ UNCHANGED <<pc, caller, pitch, trigger, midi, timer, nsent, apart>>

Set(r) ==
    /\ pc' = r.pc
    /\ thread' = r.thread
    /\ pitch' = r.pitch
    /\ trigger' = r.trigger
    /\ midi' = r.midi

\* try_iter() finds the channel empty: the loop ends and the note is played.
Play ==
    /\ pc = "drain"
    /\ receiver = <<>>
    /\ thread.is_playing =>
           /\ thread.pitch_producer.input.counter < MaxCounter
           /\ thread.trigger_producer.current_beat_note < MaxBeatNote
    /\ \E r \in tick_play(thread) : Set(r)
    /\ UNCHANGED <<receiver, caller, timer, nsent, applied, apart>>

\* The sleep ends.
NoteOff ==
    /\ pc = "sleep"
    /\ \E r \in tick_note_off(thread, pitch, midi) : Set(r)
    /\ UNCHANGED <<receiver, caller, timer, nsent, applied, apart>>

(* ------------------------------------------------------------------ *)
(* The quantizer alone: one quantizer per input pitch and scale           *)
(* ------------------------------------------------------------------ *)
\* Highest octave of an input pitch.
MaxOctave == 1
\* Longest scale.
MaxScaleLen == 2

Octaves == 0..MaxOctave

Scales == SeqsUpTo(Letters, MaxScaleLen)

\* The wrapped producer is a RandomPitchProducer with min = max, which
\* always returns min.
QuantizerInit ==
    /\ \E letter \in Letters, octave \in Octaves : q_in = LetterOctave(letter, octave)
    /\ \E scale \in Scales :
           quantizer = PitchQuantizer_new(RandomPitchProducer_new(q_in, q_in), scale)
    /\ q_out = NoPitch
    /\ q_pc = "new"

QuantizerIdle ==
    /\ q_in = NoPitch
    /\ quantizer = PitchQuantizer_new(RandomPitchProducer_new(NoPitch, NoPitch), <<>>)
    /\ q_out = NoPitch
    /\ q_pc = "new"

QuantizerTick ==
    /\ q_pc # "panicked"
    /\ \E r \in PitchQuantizer_tick(quantizer) :
           /\ quantizer' = r.self
           /\ q_out' = r.out
           /\ q_pc' = IF r.panic THEN "panicked" ELSE "ticked"
    /\ UNCHANGED <<q_in, engine_vars, divider_vars, run_vars, producer_vars, twin_vars>>

(* ------------------------------------------------------------------ *)
(* The rhythm divider alone: one divider per factor and beat grouping     *)
(* ------------------------------------------------------------------ *)
\* Largest factor (raw ticks per beat).
MaxFactor == 4
\* Largest entry of a beat grouping.
MaxNotesPerBeat == 2
\* Number of raw ticks followed.
MaxTicks == 20

Factors == 0..MaxFactor

BeatGroupings == [1..4 -> 0..MaxNotesPerBeat]

DividerInit ==
    /\ \E factor \in Factors, notes_per_beat \in BeatGroupings :
           divider = RhythmDivider_new(factor, notes_per_beat)
    /\ d_pc = "running"
    /\ d_log = <<>>

DividerIdle ==
    /\ divider = RhythmDivider_new(0, <<0, 0, 0, 0>>)
    /\ d_pc = "running"
    /\ d_log = <<>>

\* slot, notes and counter are those the tick decided on: after the slot
\* advance, before the counters move.
DividerTick ==
    /\ d_pc = "running"
    /\ Len(d_log) < MaxTicks
    /\ \E r \in RhythmDivider_tick(divider) :
           /\ divider' = r.self
           /\ d_pc' = IF r.panic THEN "panicked" ELSE "running"
           /\ d_log' = Append(d_log,
                              [polled |-> r.polled, out |-> r.out,
                               slot |-> r.self.current_beat_index,
                               notes |-> r.self.current_beat_note,
                               counter |-> r.self.counter])
    /\ UNCHANGED <<engine_vars, quantizer_vars, run_vars, producer_vars, twin_vars>>

(* ------------------------------------------------------------------ *)
(* One engine run from construction: ticks taken whole                    *)
(* ------------------------------------------------------------------ *)
\* The notes of the Major scale, C D E F G A B (the table itself is in the
\* asset tables, which this model does not have).
MAJOR_SCALE_NOTES == <<0, 2, 4, 5, 7, 9, 11>>

\* Beat groupings of the run: one note per beat, three, and one per raw
\* tick of a 20-tick beat.
EndToEndBeatGroupings == {<<1, 1, 1, 1>>, <<3, 3, 3, 3>>, <<20, 20, 20, 20>>}

\* Tempos of the run.
EndToEndTempos == {60, 120, 240}

\* Instrument 10, Major scale, a ramp of 4 ticks from C3 to C4, four
\* quarter notes.
EndToEndConfig(notes_per_beat, bpm) ==
    [min_pitch |-> LetterOctave(0, 3), max_pitch |-> LetterOctave(0, 4),
     pitch_producer_type |-> "RampUp", cycle_length |-> 4,
     rhythm_pattern |-> <<0, 0, 0, 0>>, notes_per_beat |-> notes_per_beat,
     instrument |-> 10, quantizer_scale |-> MAJOR_SCALE_NOTES, bpm |-> bpm]

\* "for command in self.receiver.try_iter() { match command ... }" run to
\* its end on a channel nobody sends to meanwhile.
RECURSIVE drain_all(_, _)
drain_all(self, queue) ==
    IF queue = <<>> THEN self
    ELSE LET got == channel_try_recv(queue)
         IN  drain_all(apply_command(self, got.command), got.rest)

RunState(self, queue, place, p, sent, started, period) ==
    [thread |-> self, receiver |-> queue, pc |-> place, pitch |-> p, midi |-> sent,
     started |-> started, timer |-> period]

EndToEndInit ==
    /\ \E notes_per_beat \in EndToEndBeatGroupings, bpm \in EndToEndTempos, is_playing \in BOOLEAN :
           LET config == EndToEndConfig(notes_per_beat, bpm)
           IN  run = RunState(Sequencer_new(config, is_playing), <<>>, "idle", NoPitch, <<>>,
                              FALSE, Timer_schedule_repeating(config))
    /\ played = [ons |-> <<>>, offs |-> <<>>]

EndToEndIdle ==
    /\ run = RunState(Sequencer_new(DefaultConfig, FALSE), <<>>, "idle", NoPitch, <<>>, FALSE,
                      Timer_schedule_repeating(DefaultConfig))
    /\ played = [ons |-> <<>>, offs |-> <<>>]

\* The play position is back at 0 after at least one note.
EndToEndDone ==
    /\ run.pc = "idle"
    /\ run.thread.current_rhythm_index = 0
    /\ played.offs # <<>>

\* sequencer.start(), once.
EndToEndStart ==
    /\ ~run.started
    /\ run.pc # "panicked"
    /\ run' = [run EXCEPT !.receiver = channel_send(run.receiver, Command("Start", 0, 1)),
                          !.started = TRUE]
    /\ UNCHANGED <<played, engine_vars, quantizer_vars, divider_vars, producer_vars, twin_vars>>

\* One call of tick() up to its sleep or its end.  A note on that was
\* sent is logged with the ramp counter its pitch was made from.
EndToEndTick ==
    /\ run.pc = "idle"
    /\ ~EndToEndDone
    /\ LET self == drain_all(run.thread, run.receiver)
       IN  \E r \in tick_play(self) :
             /\ run' = RunState(r.thread, <<>>, r.pc, r.pitch, r.midi, run.started, run.timer)
             /\ played' = IF Len(r.midi) >= 2
                          THEN [played EXCEPT !.ons =
                                    Append(@, [note |-> r.midi[2][2],
                                               phase |-> self.pitch_producer.input.counter])]
                          ELSE played
    /\ UNCHANGED <<engine_vars, quantizer_vars, divider_vars, producer_vars, twin_vars>>

\* The rest of that call of tick(), after the sleep.
EndToEndNoteOff ==
    /\ run.pc = "sleep"
    /\ \E r \in tick_note_off(run.thread, run.pitch, run.midi) :
             /\ run' = RunState(r.thread, <<>>, r.pc, r.pitch, r.midi, run.started, run.timer)
             /\ played' = IF Len(r.midi) = 3
                          THEN [played EXCEPT !.offs = Append(@, r.midi[3][2])]
                          ELSE played
    /\ UNCHANGED <<engine_vars, quantizer_vars, divider_vars, producer_vars, twin_vars>>

(* ------------------------------------------------------------------ *)
(* A pitch producer alone                                                 *)
(* ------------------------------------------------------------------ *)
\* Longest cycle of a producer.
MaxCycleLength == 5
\* Number of ticks followed.
MaxProducerTicks == 11

CycleLengths == 0..MaxCycleLength

\* The ends of a ramp's or a square wave's range: steps 0, 3 and 8.
ProducerPitches == {LetterOctave(0, -1), LetterOctave(3, -1), LetterOctave(8, -1)}

\* The ends of a sine's range: steps 0, 1 and 2.
SinePitches == {LetterOctave(0, -1), LetterOctave(1, -1), LetterOctave(2, -1)}

ProducerInit ==
    /\ \/ /\ \E cycle_length \in CycleLengths, min \in ProducerPitches, max \in ProducerPitches :
                  \/ producer = RampPitchProducer_new(cycle_length, min, max)
                  \/ producer = SquarePitchProducer_new(cycle_length, min, max)
          /\ p_sin = <<>>
       \/ /\ \E cycle_length \in CycleLengths, min \in SinePitches, max \in SinePitches :
                  producer = SinePitchProducer_new(cycle_length, min, max)
          /\ \E lo \in {producer.min, producer.max}, hi \in {producer.min, producer.max} :
                  lo <= hi /\ p_sin \in [1..MaxCycleLength -> lo..hi]
    /\ p_pc = "new"
    /\ p_log = <<>>

ProducerIdle ==
    /\ producer = RandomPitchProducer_new(NoPitch, NoPitch)
    /\ p_pc = "new"
    /\ p_sin = <<>>
    /\ p_log = <<>>

\* One call of the producer's tick().
ProducerTick ==
    /\ p_pc # "panicked"
    /\ Len(p_log) < MaxProducerTicks
    /\ \E r \in PitchModule_tick(producer) :
           /\ (producer.type = "Sine" /\ ~r.panic /\ producer.counter # 0)
                  => step(r.out) = p_sin[producer.counter]
           /\ producer' = r.self
           /\ p_pc' = IF r.panic THEN "panicked" ELSE "ticked"
           /\ p_log' = Append(p_log, [out |-> step(r.out), counter |-> r.self.counter])
    /\ UNCHANGED <<p_sin, engine_vars, quantizer_vars, divider_vars, run_vars, twin_vars>>

(* ------------------------------------------------------------------ *)
(* Two engines side by side                                               *)
(* ------------------------------------------------------------------ *)
\* The commands one tick drains: none or one, the same for both engines.
TwinCommands ==
    {<<>>, <<Command("Start", 0, 0)>>, <<Command("Stop", 0, 0)>>,
     <<Command("SetRhythmPattern", <<0>>, 0)>>}
    \cup {<<Command("SetTriggerProducer", Sequencer_build_trigger_producer(config), 0)>> :
              config \in TriggerConfigs}

\* One whole call of tick() on a channel that holds these commands: the
\* drain, the play, and for a fired note the note off after the sleep.
SequencerThread_tick(self, queue) ==
    UNION { IF r.pc = "sleep" THEN tick_note_off(r.thread, r.pitch, r.midi) ELSE {r}
            : r \in tick_play(drain_all(self, queue)) }

\* What the MIDI sink did to a tick: the number of messages it took before
\* a send failed, 3 when none failed.
SinkFate(r) == IF r.pc = "panicked" /\ r.trigger = "On" THEN Len(r.midi) ELSE 3

TwinEngine(r, entered, ticked) ==
    [thread |-> r.thread, pc |-> r.pc, pitch |-> r.pitch, trigger |-> r.trigger,
     midi |-> r.midi, entered |-> entered, ticked |-> ticked]

\* Two engines built from configurations that differ in the pitch
\* producer (type, range, cycle length or scale) and in nothing else.
TwinInit ==
    \E ca \in PitchConfigs, cb \in PitchConfigs, is_playing \in BOOLEAN :
        /\ ca # cb
        /\ LET a == Sequencer_new(ca, is_playing)
               b == Sequencer_new(cb, is_playing)
           IN  twin = [a |-> TwinEngine(TickResult("idle", a, NoPitch, "None", <<>>), a, FALSE),
                       b |-> TwinEngine(TickResult("idle", b, NoPitch, "None", <<>>), b, FALSE)]

TwinIdle == twin = <<>>

\* The capped counters of a thread are below their caps.
BelowCaps(self) ==
    /\ self.pitch_producer.input.counter < MaxCounter
    /\ self.trigger_producer.current_beat_note < MaxBeatNote

\* The timer fires in both engines: each runs one tick, on the same
\* commands and with the same MIDI sink.
TwinTick ==
    /\ twin.a.pc = "idle" /\ twin.b.pc = "idle"
    /\ BelowCaps(twin.a.thread) /\ BelowCaps(twin.b.thread)
    /\ \E queue \in TwinCommands :
         \E ra \in SequencerThread_tick(twin.a.thread, queue),
            rb \in SequencerThread_tick(twin.b.thread, queue) :
              /\ SinkFate(ra) = SinkFate(rb)
              /\ twin' = [a |-> TwinEngine(ra, drain_all(twin.a.thread, queue), TRUE),
                          b |-> TwinEngine(rb, drain_all(twin.b.thread, queue), TRUE)]
    /\ UNCHANGED <<engine_vars, quantizer_vars, divider_vars, run_vars, producer_vars>>

(* ------------------------------------------------------------------ *)
(* Specifications                                                         *)
(* ------------------------------------------------------------------ *)
EngineIdle ==
    /\ thread = Sequencer_new(DefaultConfig, FALSE)
    /\ receiver = <<>>
    /\ pc = "idle"
    /\ caller = [pc |-> "ready", bpm |-> 0]
    /\ pitch = NoPitch
    /\ trigger = "None"
    /\ midi = <<>>
    /\ timer = Timer_schedule_repeating(DefaultConfig)
    /\ nsent = 0
    /\ applied = <<>>

\* The engine and its caller.
Init == EngineInit /\ QuantizerIdle /\ DividerIdle /\ EndToEndIdle /\ ProducerIdle /\ TwinIdle

Next ==
    \/ Sequencer_start
    \/ Sequencer_stop
    \/ Sequencer_update_instrument
    \/ Sequencer_update_rhythm_pattern
    \/ Sequencer_update_pitch_producer
    \/ Sequencer_update_trigger_producer
    \/ Sequencer_update_trigger_producer_tempo
    \/ TimerFire
    \/ Drain
    \/ Play
    \/ NoteOff

Spec == Init /\ [][Next]_vars

\* PitchQuantizer::tick over all input pitches and scales.
QuantizerSpecInit ==
    QuantizerInit /\ EngineIdle /\ DividerIdle /\ EndToEndIdle /\ ProducerIdle /\ TwinIdle

QuantizerSpec == QuantizerSpecInit /\ [][QuantizerTick]_vars

\* RhythmDivider::tick over all factors and beat groupings.
DividerSpecInit ==
    DividerInit /\ EngineIdle /\ QuantizerIdle /\ EndToEndIdle /\ ProducerIdle /\ TwinIdle

DividerSpec == DividerSpecInit /\ [][DividerTick]_vars

\* One run of the end-to-end configuration, at each tempo, from
\* construction until the play position is back at 0.
EndToEndSpecInit ==
    EndToEndInit /\ EngineIdle /\ QuantizerIdle /\ DividerIdle /\ ProducerIdle /\ TwinIdle

EndToEndNext ==
    \/ EndToEndStart
    \/ EndToEndTick
    \/ EndToEndNoteOff

EndToEndSpec == EndToEndSpecInit /\ [][EndToEndNext]_vars

\* The ramp, the square wave and the sine over cycle lengths and ranges.
ProducerSpecInit ==
    ProducerInit /\ EngineIdle /\ QuantizerIdle /\ DividerIdle /\ EndToEndIdle /\ TwinIdle

ProducerSpec == ProducerSpecInit /\ [][ProducerTick]_vars

\* Two engines that differ in their pitch producers, ticked together.
TwinSpecInit ==
    TwinInit /\ EngineIdle /\ QuantizerIdle /\ DividerIdle /\ EndToEndIdle /\ ProducerIdle

TwinSpec == TwinSpecInit /\ [][TwinTick]_vars

(* ------------------------------------------------------------------ *)
(* Steps of the engine, for the properties below                          *)
(* ------------------------------------------------------------------ *)
\* The engine applies a command of this type in this step.
Applies(type) ==
    /\ pc = "drain"
    /\ receiver # <<>>
    /\ Head(receiver).type = type
    /\ Len(applied') = Len(applied) + 1

\* The drain loop ends in this step and the rest of tick() runs.
DrainEnds == pc = "drain" /\ pc' # "drain"

\* The sleep of a fired note ends in this step.
SleepEnds == pc = "sleep" /\ pc' # "sleep"

(* ------------------------------------------------------------------ *)
(* C1                                                                     *)
(* ------------------------------------------------------------------ *)
\* The commands applied so far followed by those in the channel are the
\* commands sent, in the order they were sent.
InSendOrder ==
    /\ Len(applied) + Len(receiver) = nsent
    /\ \A i \in 1..Len(applied) : applied[i].command.id = i
    /\ \A i \in 1..Len(receiver) : receiver[i].id = Len(applied) + i

\* C1: commands are applied in exactly the order they were sent, none
\* reordered or dropped, and a tick's drain ends only when every command
\* sent so far has been applied, so that every command sent is applied by
\* the first drain that ends after it.
C1_AppliedInSendOrder ==
    /\ []InSendOrder
    /\ [][DrainEnds => receiver = <<>> /\ Len(applied) = nsent]_vars

\* Two commands have been applied, the second after the first, and the
\* tick that drained the second is over.
C1_Witness ==
    /\ Len(applied) >= 2
    /\ applied[1].command.type # applied[2].command.type
    /\ receiver = <<>>
    /\ pc = "idle"

(* ------------------------------------------------------------------ *)
(* C2                                                                     *)
(* ------------------------------------------------------------------ *)
\* C2: a tick whose drain leaves the playing flag false ticks neither
\* producer (their counters and the whole thread are as before), sends no
\* MIDI message and leaves the play position where it was.
C2_PausedTickChangesNothing ==
    [][DrainEnds /\ ~thread.is_playing =>
          /\ pc' = "idle"
          /\ thread' = thread
          /\ thread'.pitch_producer.input.counter = thread.pitch_producer.input.counter
          /\ thread'.trigger_producer = thread.trigger_producer
          /\ thread'.current_rhythm_index = thread.current_rhythm_index
          /\ midi' = <<>>
          /\ pitch' = NoPitch
          /\ trigger' = "None"]_vars

\* A paused tick is over (the Stop it drained is the last command applied)
\* and both producers are in mid-phase.
C2_Witness ==
    /\ pc = "idle"
    /\ ~thread.is_playing
    /\ last_applied.type = "Stop"
    /\ receiver = <<>>
    /\ trigger = "None"
    /\ thread.pitch_producer.input.counter > 0
    /\ thread.trigger_producer.counter > 1

(* ------------------------------------------------------------------ *)
(* C3                                                                     *)
(* ------------------------------------------------------------------ *)
\* The pitch producer can return this pitch from this state.
Quantized(pp, p) == \E r \in PitchQuantizer_tick(pp) : ~r.panic /\ r.out = p

\* C3: a playing tick whose trigger is On sends a program change with the
\* stored instrument, then a note on for the quantized pitch, and after
\* the sleep a note off for the same note, and only then moves the play
\* position on by one modulo the pattern length; a playing tick whose
\* trigger is Off sends nothing and leaves the play position.  (A tick
\* that panics, on a failed send or an empty pattern, stops where it is.)
C3_FireAndSilence ==
    /\ [][DrainEnds /\ thread.is_playing /\ pc' = "sleep" =>
             /\ trigger' = "On"
             /\ Quantized(thread.pitch_producer, pitch')
             /\ midi' = <<program_change(thread.instrument), note_on(step(pitch'))>>
             /\ thread'.instrument = thread.instrument
             /\ thread'.rhythm_pattern = thread.rhythm_pattern
             /\ thread'.current_rhythm_index = thread.current_rhythm_index]_vars
    /\ [][SleepEnds /\ pc' = "idle" =>
             /\ midi' = <<program_change(thread.instrument), note_on(step(pitch)),
                          note_off(step(pitch))>>
             /\ trigger' = "On"
             /\ thread'.current_rhythm_index =
                    (thread.current_rhythm_index + 1) % Len(thread.rhythm_pattern)
             /\ thread' = [thread EXCEPT !.current_rhythm_index =
                                             thread'.current_rhythm_index]]_vars
    /\ [][DrainEnds /\ thread.is_playing /\ pc' = "idle" =>
             /\ trigger' = "Off"
             /\ midi' = <<>>
             /\ thread'.current_rhythm_index = thread.current_rhythm_index]_vars
    /\ [][DrainEnds /\ trigger' = "On" => pc' \in {"sleep", "panicked"}]_vars
    /\ [](trigger = "Off" => midi = <<>> /\ pc # "sleep")
    /\ [](trigger = "On" /\ pc = "idle" => Len(midi) = 3)

\* A fired tick is over: its three messages are out and the play position
\* has wrapped from the last entry of a two-entry pattern to the first.
C3_Witness ==
    /\ pc = "idle"
    /\ trigger = "On"
    /\ Len(midi) = 3
    /\ midi[1] = program_change(11)
    /\ Len(thread.rhythm_pattern) = 2
    /\ thread.current_rhythm_index = 0

(* ------------------------------------------------------------------ *)
(* C4                                                                     *)
(* ------------------------------------------------------------------ *)
\* C4: a Stop applied while stopped and a Start applied while playing
\* change nothing of the thread, and so does a Stop (a Start) applied
\* right after another Stop (Start).
C4_StartStopIdempotent ==
    /\ [][Applies("Stop") /\ ~thread.is_playing => thread' = thread]_vars
    /\ [][Applies("Start") /\ thread.is_playing => thread' = thread]_vars
    /\ [][Applies("Stop") /\ last_applied.type = "Stop" => thread' = thread]_vars
    /\ [][Applies("Start") /\ last_applied.type = "Start" => thread' = thread]_vars
    /\ [][Applies("Stop") => thread' = [thread EXCEPT !.is_playing = FALSE]]_vars
    /\ [][Applies("Start") => thread' = [thread EXCEPT !.is_playing = TRUE]]_vars

\* Two Stops in a row have been applied to an engine that has played.
C4_Witness ==
    /\ Len(applied) = 2
    /\ applied[1].command.type = "Stop"
    /\ applied[2].command.type = "Stop"
    /\ applied[2].index > 0
    /\ ~thread.is_playing

(* ------------------------------------------------------------------ *)
(* C5                                                                     *)
(* ------------------------------------------------------------------ *)
\* C5: SetPitchProducer replaces the pitch producer and nothing else (the
\* rhythm divider's counter, slot and notes in slot stay), and
\* SetTriggerProducer replaces the trigger producer and nothing else.
C5_HotSwapFrame ==
    /\ [][Applies("SetPitchProducer") =>
             /\ thread' = [thread EXCEPT !.pitch_producer = Head(receiver).arg]
             /\ thread'.trigger_producer = thread.trigger_producer]_vars
    /\ [][Applies("SetTriggerProducer") =>
             /\ thread' = [thread EXCEPT !.trigger_producer = Head(receiver).arg]
             /\ thread'.pitch_producer = thread.pitch_producer]_vars

\* A pitch producer has just been swapped in while the rhythm divider is
\* in its second slot, between two note boundaries.
C5_Witness ==
    /\ pc = "drain"
    /\ last_applied.type = "SetPitchProducer"
    /\ thread.pitch_producer = last_applied.arg
    /\ thread.trigger_producer.counter > 1
    /\ thread.trigger_producer.current_beat_index > 0
    /\ thread.trigger_producer.current_beat_note > 0
    /\ thread.current_rhythm_index > 0

(* ------------------------------------------------------------------ *)
(* C6                                                                     *)
(* ------------------------------------------------------------------ *)
Range(seq) == {seq[i] : i \in 1..Len(seq)}

Lowest(S) == CHOOSE x \in S : \A y \in S : x <= y

\* C6: for every input pitch and every non-empty scale the quantizer
\* returns a pitch whose letter is in the scale; an input whose letter is
\* in the scale comes back unchanged; when no entry of the scale is equal
\* to or above the input's letter the result is the lowest entry one
\* octave up; in every other case the octave is the input's.
C6_QuantizerInScale ==
    LET scale == Range(quantizer.scale)
    IN  scale # {} =>
          /\ q_pc # "panicked"
          /\ q_pc = "ticked" =>
                /\ q_out.letter \in scale
                /\ q_in.letter \in scale => q_out = q_in
                /\ IF \A e \in scale : e < q_in.letter
                   THEN q_out = LetterOctave(Lowest(scale), q_in.octave + 1)
                   ELSE q_out.octave = q_in.octave
                /\ q_out.octave >= q_in.octave

\* A pitch above both entries of a two-entry scale has been quantized: it
\* wrapped to the lower entry, one octave up.
C6_Witness ==
    /\ q_pc = "ticked"
    /\ Cardinality(Range(quantizer.scale)) = 2
    /\ \A e \in Range(quantizer.scale) : e < q_in.letter
    /\ q_out.octave = q_in.octave + 1

(* ------------------------------------------------------------------ *)
(* C7                                                                     *)
(* ------------------------------------------------------------------ *)
\* C7: a divider with notes_per_beat = [1,1,1,1] and factor = 4 polls its
\* wrapped producer on exactly one of any 4 consecutive raw ticks (the
\* ticks 1, 5, 9, ...), and its slot goes 0, 1, 2, 3, 0, ..., moving on by
\* one at each poll after the first.
C7_OnePollPerFourTicks ==
    divider.factor = 4 /\ divider.notes_per_beat = <<1, 1, 1, 1>> =>
        /\ d_pc = "running"
        /\ \A i \in 1..(Len(d_log) - 3) :
               Cardinality({j \in i..(i + 3) : d_log[j].polled}) = 1
        /\ \A j \in 1..Len(d_log) :
               /\ d_log[j].polled <=> (j - 1) % 4 = 0
               /\ d_log[j].polled => d_log[j].out \in RandomTriggerProducer_tick
               /\ d_log[j].slot = ((j - 1) \div 4) % 4
               /\ j > 1 => d_log[j].slot = IF d_log[j].polled
                                           THEN (d_log[j - 1].slot + 1) % 4
                                           ELSE d_log[j - 1].slot

\* The divider has gone round all four slots: its fifth poll, on tick 17,
\* is in slot 0 again.
C7_Witness ==
    /\ divider.factor = 4
    /\ divider.notes_per_beat = <<1, 1, 1, 1>>
    /\ Len(d_log) >= 17
    /\ d_log[13].polled /\ d_log[13].slot = 3
    /\ d_log[17].polled /\ d_log[17].slot = 0

(* ------------------------------------------------------------------ *)
(* C8                                                                     *)
(* ------------------------------------------------------------------ *)
\* C8: an empty scale is rejected where the quantizer is built, so no
\* SetPitchProducer command that carries a quantizer with an empty scale
\* is ever in the channel.
C8_NoEmptyScaleEnqueued ==
    \A i \in 1..Len(receiver) :
        receiver[i].type = "SetPitchProducer" => receiver[i].arg.scale # <<>>

(* ------------------------------------------------------------------ *)
(* C9                                                                     *)
(* ------------------------------------------------------------------ *)
\* C9: a configuration with min > max or with a zero cycle length is
\* rejected before anything is sent, so no SetPitchProducer command built
\* from one is ever in the channel.
C9_NoInvalidProducerEnqueued ==
    \A i \in 1..Len(receiver) :
        receiver[i].type = "SetPitchProducer" =>
            /\ receiver[i].arg.input.min <= receiver[i].arg.input.max
            /\ receiver[i].arg.input.type # "Random" => receiver[i].arg.input.cycle_length > 0

(* ------------------------------------------------------------------ *)
(* C10                                                                    *)
(* ------------------------------------------------------------------ *)
\* C10: with a non-empty rhythm pattern the play position is an index of
\* the pattern; it moves only by one modulo the pattern length when a
\* fired note ends, or to 0 when SetRhythmPattern is applied, which
\* replaces the pattern, also by one shorter than the old position.
C10_PlayPositionInPattern ==
    /\ [](thread.rhythm_pattern # <<>> =>
             /\ 0 <= thread.current_rhythm_index
             /\ thread.current_rhythm_index < Len(thread.rhythm_pattern))
    /\ [][thread'.current_rhythm_index # thread.current_rhythm_index =>
             \/ /\ SleepEnds
                /\ thread'.current_rhythm_index =
                       (thread.current_rhythm_index + 1) % Len(thread.rhythm_pattern)
             \/ /\ Applies("SetRhythmPattern")
                /\ thread'.current_rhythm_index = 0]_vars
    /\ [][Applies("SetRhythmPattern") =>
             /\ thread'.rhythm_pattern = Head(receiver).arg
             /\ thread'.current_rhythm_index = 0]_vars
    /\ [][thread'.rhythm_pattern # thread.rhythm_pattern => Applies("SetRhythmPattern")]_vars

\* A one-entry pattern has replaced a longer one that was at position 1.
C10_Witness ==
    /\ applied # <<>>
    /\ last_applied.type = "SetRhythmPattern"
    /\ Len(last_applied.arg) = 1
    /\ applied[Len(applied)].index = 1
    /\ thread.rhythm_pattern = last_applied.arg
    /\ thread.current_rhythm_index = 0

(* ------------------------------------------------------------------ *)
(* C11                                                                    *)
(* ------------------------------------------------------------------ *)
\* C11: the run of {instrument 10, Major scale, Ramp(cycle 4, C3, C4), four
\* quarter notes, tempo 120}, started and ticked until the play position
\* is back at 0, sends exactly 4 note-on/note-off pairs (each note off
\* follows its note on, for the same note, before the next note on), and
\* of two successive note-on pitches the second is not lower unless the
\* ramp has started again in between (its counter is lower).
C11_EndToEnd ==
    LET ons == played.ons
        offs == played.offs
    IN  run.thread.tempo = 120 =>
          /\ Len(offs) <= Len(ons)
          /\ Len(ons) <= Len(offs) + 1
          /\ run.pc = "idle" => Len(ons) = Len(offs)
          /\ run.pc = "sleep" => Len(ons) = Len(offs) + 1
          /\ \A i \in 1..Len(offs) : offs[i] = ons[i].note
          /\ Len(ons) <= 4
          /\ EndToEndDone => Len(ons) = 4 /\ Len(offs) = 4
          /\ run.pc # "panicked" => run.thread.current_rhythm_index = Len(offs) % 4
          /\ \A i \in 1..(Len(ons) - 1) :
                 ons[i].phase <= ons[i + 1].phase => ons[i].note <= ons[i + 1].note

\* The run is over after a Start: four pairs, on four successive ticks of
\* one ascent of the ramp, C3 E3 A3 C4.
C11_Witness ==
    /\ EndToEndDone
    /\ run.thread.tempo = 120
    /\ run.started
    /\ Len(played.offs) = 4
    /\ [i \in 1..4 |-> played.ons[i].note] = <<48, 52, 57, 60>>
    /\ [i \in 1..4 |-> played.ons[i].phase] = <<0, 1, 2, 3>>

(* ------------------------------------------------------------------ *)
(* C12                                                                    *)
(* ------------------------------------------------------------------ *)
\* The integer out is num/den rounded to a nearest integer (den > 0).
Nearest(out, num, den) ==
    /\ 2 * (out * den - num) <= den
    /\ 2 * (num - out * den) <= den

\* The first Len(log) - p outputs come again p ticks later.
Repeats(log, p) == \A k \in 1..(Len(log) - p) : log[k + p].out = log[k].out

\* C12: a ramp with cycle_length n >= 1 yields on its k-th tick (k from 0)
\* the pitch of min + slope * (k mod n), slope = (max - min) / (n - 1) for
\* n > 1 and 0 for n = 1; its counter stays in 0..n-1 and is 0 again after
\* every n-th tick, so the outputs repeat every n ticks, and for
\* min # max after no fewer; with n = 5, min = 0, max = 8 the outputs are
\* 0, 2, 4, 6, 8, 0, 2, ...
C12_RampSequence ==
    LET n == producer.cycle_length
        min == producer.min
        max == producer.max
    IN  producer.type = "RampUp" /\ n >= 1 =>
          /\ p_pc # "panicked"
          /\ producer.counter \in 0..(n - 1)
          /\ producer.counter = Len(p_log) % n
          /\ \A k \in 1..Len(p_log) :
                 /\ p_log[k].counter = k % n
                 /\ IF n = 1
                    THEN p_log[k].out = min
                    ELSE Nearest(p_log[k].out, min * (n - 1) + (max - min) * ((k - 1) % n), n - 1)
                 /\ (k - 1) % n = 0 => p_log[k].out = min
                 /\ (k - 1) % n = n - 1 /\ n > 1 => p_log[k].out = max
          /\ Repeats(p_log, n)
          /\ (min # max /\ Len(p_log) >= 2 * n) => \A q \in 1..(n - 1) : ~Repeats(p_log, q)
          /\ (n = 5 /\ min = 0 /\ max = 8) =>
                 \A k \in 1..Len(p_log) : p_log[k].out = 2 * ((k - 1) % 5)

\* The ramp of 5 ticks from 0 to 8 has been ticked 7 times.
C12_Witness ==
    /\ producer.type = "RampUp"
    /\ producer.cycle_length = 5
    /\ Len(p_log) = 7
    /\ [k \in 1..7 |-> p_log[k].out] = <<0, 2, 4, 6, 8, 0, 2>>
    /\ producer.counter = 2

(* ------------------------------------------------------------------ *)
(* C13                                                                    *)
(* ------------------------------------------------------------------ *)
\* C13: a square wave with cycle_length n >= 1 yields min on the first
\* floor(n/2) ticks of each cycle and max on the others, and its counter
\* is 0 again after exactly every n-th tick; with n = 4 it yields min, min,
\* max, max and min again on the fifth tick.
C13_SquareSequence ==
    LET n == producer.cycle_length
        min == producer.min
        max == producer.max
    IN  producer.type = "Square" /\ n >= 1 =>
          /\ p_pc # "panicked"
          /\ producer.counter = Len(p_log) % n
          /\ \A k \in 1..Len(p_log) :
                 /\ p_log[k].out = IF (k - 1) % n < n \div 2 THEN min ELSE max
                 /\ p_log[k].counter = k % n
                 /\ p_log[k].counter = 0 <=> k % n = 0
          /\ Repeats(p_log, n)
          /\ n = 4 =>
                 \A k \in 1..Len(p_log) :
                     p_log[k].out = IF (k - 1) % 4 \in {0, 1} THEN min ELSE max

\* A square wave of 4 ticks between two different pitches has been ticked
\* 5 times.
C13_Witness ==
    /\ producer.type = "Square"
    /\ producer.min # producer.max
    /\ producer.cycle_length = 4
    /\ Len(p_log) = 5
    /\ [k \in 1..5 |-> p_log[k].out] =
           <<producer.min, producer.min, producer.max, producer.max, producer.min>>
    /\ producer.counter = 1

(* ------------------------------------------------------------------ *)
(* C14                                                                    *)
(* ------------------------------------------------------------------ *)
\* C14 as stated: the period of the engine's timer is 60,000 ms divided by
\* the tempo of the configuration given to Sequencer::new and by the 40
\* ticks per quarter note.
C14_PeriodFromConfiguredTempo ==
    run.timer = (60000 \div run.thread.tempo) \div TICKS_PER_QUARTER_NOTE

\* C14, amended: the period of the engine's timer is 60,000 ms / 60 / 40 =
\* 25 ms, the same for every configured tempo, from construction on.
C14_PeriodIsConstant ==
    /\ run.timer * BPM * TICKS_PER_QUARTER_NOTE = 60000
    /\ run.timer = 25

\* An engine built for tempo 120 has played a note on its 25 ms timer.
C14_Witness ==
    /\ run.thread.tempo = 120
    /\ run.thread.trigger_producer.factor = 20
    /\ played.offs # <<>>
    /\ run.timer = 25

(* ------------------------------------------------------------------ *)
(* C15                                                                    *)
(* ------------------------------------------------------------------ *)
\* C15: applying SetTempo stores the tempo and changes nothing else: the
\* timer's period, the pitch producer, the trigger producer with its
\* factor, the playing flag, the instrument, the rhythm pattern and the
\* play position are as before.
C15_SetTempoFrame ==
    [][Applies("SetTempo") =>
          /\ thread' = [thread EXCEPT !.tempo = Head(receiver).arg]
          /\ timer' = timer
          /\ thread'.pitch_producer = thread.pitch_producer
          /\ thread'.trigger_producer = thread.trigger_producer
          /\ thread'.trigger_producer.factor = thread.trigger_producer.factor
          /\ thread'.is_playing = thread.is_playing
          /\ thread'.instrument = thread.instrument
          /\ thread'.rhythm_pattern = thread.rhythm_pattern
          /\ thread'.current_rhythm_index = thread.current_rhythm_index]_vars

\* Tempo 1200 has just been stored in place of 600, a tick after the
\* trigger producer was swapped: both producers are in mid-phase, the play
\* position is 1, and the divider's factor is not the old tempo's.
C15_Witness ==
    /\ pc = "drain"
    /\ Len(applied) = 2
    /\ last_applied.type = "SetTempo"
    /\ last_applied.arg = 1200
    /\ thread.tempo = 1200
    /\ timer = SCHEDULE_REPEATING_DURATION
    /\ thread.trigger_producer.factor = 2
    /\ thread.trigger_producer.counter > 0
    /\ thread.pitch_producer.input.counter > 0
    /\ thread.current_rhythm_index = 1

(* ------------------------------------------------------------------ *)
(* C16                                                                    *)
(* ------------------------------------------------------------------ *)
\* The last Start or Stop applied: "Start", "Stop", or "None".
RECURSIVE LastStartStop(_)
LastStartStop(log) ==
    IF log = <<>> THEN "None"
    ELSE IF log[Len(log)].command.type \in {"Start", "Stop"}
         THEN log[Len(log)].command.type
         ELSE LastStartStop(SubSeq(log, 1, Len(log) - 1))

\* A Stop waits in the channel while a note sounds.
StopDuringNote == pc = "sleep" /\ \E i \in 1..Len(receiver) : receiver[i].type = "Stop"

\* C16: while a note sounds (after its note on, before its note off) no
\* command is applied and no tick starts, whatever is sent, a Stop
\* included: the next thing the engine does is send the note off for that
\* note (or fail to); and once a Stop has been applied no note on is sent
\* until a Start has been applied after it.
C16_StopDoesNotCancelNote ==
    /\ [][pc = "sleep" =>
             /\ applied' = applied
             /\ pc' \in {"sleep", "idle", "panicked"}
             /\ pc' = "sleep" => thread' = thread /\ midi' = midi /\ pitch' = pitch
             /\ pc' = "idle" => /\ midi' = Append(midi, note_off(midi[2][2]))
                                /\ receiver' = receiver
             /\ pc' = "panicked" => midi' = midi /\ receiver' = receiver]_vars
    /\ [][StopDuringNote /\ pc' = "idle" =>
             /\ Len(midi') = 3
             /\ midi'[3] = note_off(step(pitch))
             /\ \E i \in 1..Len(receiver') : receiver'[i].type = "Stop"]_vars
    /\ [](LastStartStop(applied) = "Stop" => ~thread.is_playing)
    /\ [][Len(midi') > Len(midi) /\ Len(midi) < 2 => LastStartStop(applied) # "Stop"]_vars
    /\ [][Len(midi') > Len(midi) /\ Len(midi) < 2 => LastStartStop(applied') # "Stop"]_vars

\* A Stop has been sent while a note sounds: the note on is out, the note
\* off is not, and the Stop waits at the head of the channel of an engine
\* that still plays.
C16_Witness ==
    /\ StopDuringNote
    /\ Len(midi) = 2
    /\ midi[2] = note_on(step(pitch))
    /\ Head(receiver).type = "Stop"
    /\ thread.is_playing
    /\ thread.current_rhythm_index = 1

(* ------------------------------------------------------------------ *)
(* C17                                                                    *)
(* ------------------------------------------------------------------ *)
\* C17: a sine with cycle_length n >= 1 yields on its first tick, and on
\* every tick at counter 0, the pitch of the midpoint min + (max - min)/2
\* (the normalized value 0.5 scaled into the range); its counter advances
\* modulo n, so the outputs repeat every n ticks.
C17_SineMidpointAndPeriod ==
    LET n == producer.cycle_length
        min == producer.min
        max == producer.max
    IN  producer.type = "Sine" /\ n >= 1 =>
          /\ p_pc # "panicked"
          /\ producer.counter = Len(p_log) % n
          /\ \A k \in 1..Len(p_log) :
                 /\ p_log[k].counter = k % n
                 /\ (k - 1) % n = 0 =>
                        /\ Nearest(p_log[k].out, min + max, 2)
                        /\ 2 * p_log[k].out >= min + max
                 /\ min <= max => p_log[k].out \in min..max
          /\ Repeats(p_log, n)

\* A sine of 3 ticks from 0 to 2 has gone through two cycles and a tick:
\* midpoint, high, low, and again.
C17_Witness ==
    /\ producer.type = "Sine"
    /\ producer.cycle_length = 3
    /\ producer.min = 0
    /\ producer.max = 2
    /\ Len(p_log) = 7
    /\ [k \in 1..7 |-> p_log[k].out] = <<1, 2, 0, 1, 2, 0, 1>>

(* ------------------------------------------------------------------ *)
(* C18                                                                    *)
(* ------------------------------------------------------------------ *)
\* Every entry of the beat grouping is positive.
PositiveGrouping == \A i \in 1..4 : divider.notes_per_beat[i] >= 1

\* C18: for every factor >= 1 and every beat grouping with positive
\* entries, a slot that has produced its notes_per_beat[slot] notes is left
\* (for the next slot, with the note counter back at 0) before it fires
\* again: no poll of the wrapped producer is a slot's note beyond its
\* configured count.
C18_SlotLeftWhenFull ==
    divider.factor >= 1 /\ PositiveGrouping =>
        \A j \in 1..Len(d_log) :
            d_log[j].polled => d_log[j].notes <= divider.notes_per_beat[d_log[j].slot + 1]

(* ------------------------------------------------------------------ *)
(* C19                                                                    *)
(* ------------------------------------------------------------------ *)
\* ceil(f / n) for f >= 0, n >= 1.
Ceil(f, n) == CHOOSE k \in 0..f : k * n >= f /\ (k = 0 \/ (k - 1) * n < f)

\* C19: a tick of the divider that does not panic polls the wrapped
\* producer exactly when the raw counter is 0 (the initial raw tick) or a
\* multiple of ceil(factor / notes_per_beat[slot]), for the slot the tick
\* decides on (after the slot advance at its head, which puts the note
\* counter of a new slot at 0); on such a tick it returns the wrapped
\* producer's result, adds one to the slot's note counter and restarts the
\* raw counter (1 after the tick); on every other tick it returns Off
\* without polling, leaves the slot's note counter and adds one to the raw
\* counter.
C19_PollsOnNoteBoundaries ==
    [][d_pc' = "running" /\ Len(d_log') = Len(d_log) + 1 =>
          LET slot == divider'.current_beat_index
              notes == IF slot # divider.current_beat_index THEN 0
                       ELSE divider.current_beat_note
              every == Ceil(divider.factor, divider.notes_per_beat[slot + 1])
              boundary == divider.counter = 0
                          \/ (every > 0 /\ divider.counter % every = 0)
              tick == d_log'[Len(d_log')]
          IN  /\ tick.polled <=> boundary
              /\ boundary =>
                     /\ tick.out \in RandomTriggerProducer_tick
                     /\ divider'.current_beat_note = notes + 1
                     /\ divider'.counter = 1
              /\ ~boundary =>
                     /\ tick.out = "Off"
                     /\ divider'.current_beat_note = notes
                     /\ divider'.counter = divider.counter + 1
              /\ divider'.factor = divider.factor
              /\ divider'.notes_per_beat = divider.notes_per_beat]_vars

\* A divider with factor 3 and two notes in its first slot has polled on
\* its first tick, kept silent on the second and polled on the third.
C19_Witness ==
    /\ divider.factor = 3
    /\ divider.notes_per_beat[1] = 2
    /\ Len(d_log) = 3
    /\ d_log[1].polled /\ d_log[1].out = "On"
    /\ ~d_log[2].polled /\ d_log[2].out = "Off"
    /\ d_log[3].polled /\ d_log[3].notes = 2 /\ d_log[3].counter = 1

(* ------------------------------------------------------------------ *)
(* C20                                                                    *)
(* ------------------------------------------------------------------ *)
\* The engine's last tick, entered playing, ticked the pitch producer once
\* and then the trigger producer once: a panic of the pitch tick leaves
\* the thread as it was, a panic of the trigger tick leaves the pitch
\* producer already ticked; a tick entered paused ticked neither.
TickedOnceEach(e) ==
    IF ~e.entered.is_playing
    THEN e.thread = e.entered
    ELSE \E p \in PitchQuantizer_tick(e.entered.pitch_producer) :
           IF p.panic
           THEN e.pc = "panicked" /\ e.thread = e.entered
           ELSE /\ e.thread.pitch_producer = p.self
                /\ e.pitch = p.out
                /\ \E t \in RhythmDivider_tick(e.entered.trigger_producer) :
                       /\ e.thread.trigger_producer = t.self
                       /\ IF t.panic THEN e.pc = "panicked" /\ e.trigger = "None"
                          ELSE e.trigger = t.out

\* C20: a playing tick ticks the pitch producer once and the trigger
\* producer once, pitch first, whether the trigger fires or not; and two
\* engines that differ only in their pitch producers, given the same
\* commands, ticks and MIDI sink, make the same Fire/Silence decision on
\* every tick and have the same play position after it (and the same
\* trigger producer state), for as long as neither has panicked.
C20_TriggerIndependentOfPitch ==
    /\ twin.a.ticked => TickedOnceEach(twin.a)
    /\ twin.b.ticked => TickedOnceEach(twin.b)
    /\ (twin.a.pc # "panicked" /\ twin.b.pc # "panicked") =>
           /\ twin.a.trigger = twin.b.trigger
           /\ twin.a.thread.current_rhythm_index = twin.b.thread.current_rhythm_index
           /\ twin.a.thread.trigger_producer = twin.b.thread.trigger_producer
           /\ twin.a.thread.is_playing = twin.b.thread.is_playing
           /\ Len(twin.a.midi) = Len(twin.b.midi)

\* Both engines have fired on the same tick with different pitches, and
\* their play positions have moved on together.
C20_Witness ==
    /\ twin.a.pc = "idle" /\ twin.b.pc = "idle"
    /\ twin.a.trigger = "On" /\ twin.b.trigger = "On"
    /\ twin.a.pitch # twin.b.pitch
    /\ twin.a.thread.pitch_producer.input.type # twin.b.thread.pitch_producer.input.type
    /\ twin.a.thread.current_rhythm_index = 1
    /\ twin.b.thread.current_rhythm_index = 1

(* ------------------------------------------------------------------ *)
(* C21                                                                    *)
(* ------------------------------------------------------------------ *)
\* The note-on messages of a stream that no later note off of the same
\* note answers (by position).
Sounding(stream) ==
    {i \in 1..Len(stream) :
        /\ stream[i][1] = NOTE_ON_MSG
        /\ ~\E j \in (i + 1)..Len(stream) : stream[j] = note_off(stream[i][2])}

\* The messages of longer are those of shorter and more after them.
Extends(longer, shorter) ==
    /\ Len(longer) > Len(shorter)
    /\ SubSeq(longer, 1, Len(shorter)) = shorter

\* C21: the MIDI stream is a sequence of triples program change, note on,
\* note off for the same note, the last possibly cut short: the messages
\* of a tick are a prefix of such a triple, every step of the engine
\* leaves them alone or sends more after them, a new tick (which is what
\* sends the next program change or note on) starts only after a tick
\* that sent nothing or a whole triple, so never between a note on and its
\* note off, at most one note sounds at any time, and an engine that has
\* panicked sends nothing more.
C21_Monophonic ==
    /\ [](/\ Len(midi) <= 3
          /\ Len(midi) >= 1 => midi[1] = program_change(thread.instrument)
          /\ Len(midi) >= 2 => midi[2] = note_on(step(pitch))
          /\ Len(midi) = 3 => midi[3] = note_off(midi[2][2])
          /\ Cardinality(Sounding(midi)) <= 1
          /\ Sounding(midi) # {} <=> Len(midi) = 2
          /\ pc = "sleep" => Len(midi) = 2
          /\ pc = "drain" => midi = <<>>
          /\ pc = "idle" => Len(midi) \in {0, 3})
    /\ [][\/ midi' = midi
          \/ Extends(midi', midi)
          \/ /\ midi' = <<>>
             /\ pc = "idle" /\ pc' = "drain"
             /\ Sounding(midi) = {}]_vars
    /\ [][pc = "panicked" => pc' = "panicked" /\ midi' = midi]_vars

\* Two notes have been played one after the other, each with its program
\* change before and its note off after: the second triple is complete and
\* the play position is back at the start of the two-entry pattern.
C21_Witness ==
    /\ pc = "idle"
    /\ Len(midi) = 3
    /\ midi[2][1] = NOTE_ON_MSG
    /\ midi[3] = note_off(midi[2][2])
    /\ Sounding(midi) = {}
    /\ thread.rhythm_pattern = <<0, 0>>
    /\ thread.current_rhythm_index = 0
    /\ \A i \in 1..Len(applied) : applied[i].command.type # "SetRhythmPattern"

(* ------------------------------------------------------------------ *)
(* C22                                                                    *)
(* ------------------------------------------------------------------ *)
\* This step is of a Fire tick whose program change or note on is not sent.
NoteOnFails ==
    /\ pc = "drain"
    /\ trigger' = "On"
    /\ Len(midi') < 2

\* The messages hold a note off.
HasNoteOff(stream) == \E i \in 1..Len(stream) : stream[i][1] = NOTE_OFF_MSG

\* C22: a Fire tick whose program change or note on fails to be sent ends
\* there: the engine does not sleep (it has panicked), the play position
\* is where it was, no note off is sent then or later, and nothing of the
\* engine changes afterwards; the sleep is only ever entered with the note
\* on sent, and the play position only moves in the step that sends a
\* note off (or when a new pattern puts it back to 0).
C22_FailedNoteOnSkipsTheRest ==
    /\ [][NoteOnFails =>
             /\ pc' = "panicked"
             /\ thread'.current_rhythm_index = thread.current_rhythm_index
             /\ thread'.rhythm_pattern = thread.rhythm_pattern
             /\ ~HasNoteOff(midi')
             /\ \A i \in 1..Len(midi') : midi'[i][1] = PROGRAM_CHANGE_MSG]_vars
    /\ [][pc = "panicked" => pc' = "panicked" /\ thread' = thread /\ midi' = midi]_vars
    /\ [](pc = "sleep" => Len(midi) = 2 /\ midi[2] = note_on(step(pitch)))
    /\ [](HasNoteOff(midi) => Len(midi) = 3 /\ midi[2][1] = NOTE_ON_MSG)
    /\ [][thread'.current_rhythm_index # thread.current_rhythm_index =>
             \/ Applies("SetRhythmPattern")
             \/ /\ pc = "sleep" /\ pc' = "idle"
                /\ midi' = Append(midi, note_off(midi[2][2]))]_vars

\* After one note played the next Fire tick sent its program change and
\* failed on the note on: the engine has panicked without a note off and
\* with the play position still at 1.
C22_Witness ==
    /\ pc = "panicked"
    /\ trigger = "On"
    /\ Len(midi) = 1
    /\ midi[1] = program_change(thread.instrument)
    /\ thread.current_rhythm_index = 1
    /\ Len(thread.rhythm_pattern) = 2

(* ------------------------------------------------------------------ *)
(* C23                                                                    *)
(* ------------------------------------------------------------------ *)
\* C23: update_trigger_producer(config) takes effect atomically for the
\* engine's ticks: in every tick that plays (its drain is over and the
\* producers were ticked: the trigger of the tick is On or Off) the live
\* trigger producer and the stored tempo belong together, the divider's
\* factor being 40 * 60 / tempo for the tempo stored; no tick plays with
\* the divider of a new tempo and the note durations of the previous one.
C23_TriggerProducerAndTempoTogether ==
    trigger \in {"On", "Off"} =>
        thread.trigger_producer.factor = (TICKS_PER_QUARTER_NOTE * BPM) \div thread.tempo

(* ------------------------------------------------------------------ *)
(* C24                                                                    *)
(* ------------------------------------------------------------------ *)
\* C24: in every state a RhythmDivider with factor >= 1 and a beat
\* grouping of positive entries reaches, the note counter of the current
\* slot is at most the slot's configured count notes_per_beat[slot].
C24_NoteCounterBounded ==
    divider.factor >= 1 /\ PositiveGrouping =>
        divider.current_beat_note <= divider.notes_per_beat[divider.current_beat_index + 1]

(* ------------------------------------------------------------------ *)
(* C25                                                                    *)
(* ------------------------------------------------------------------ *)
\* C25: for every factor >= 1 and every beat grouping of positive entries
\* the raw-tick counter of a RhythmDivider is at most factor when a tick
\* starts (between two calls of tick()): no more than factor raw ticks
\* pass from one note boundary to the next.
C25_RawCounterWithinFactor ==
    divider.factor >= 1 /\ PositiveGrouping => divider.counter <= divider.factor

(* ------------------------------------------------------------------ *)
(* C26                                                                    *)
(* ------------------------------------------------------------------ *)
\* C26: for every input pitch and every non-empty scale the quantizer
\* returns a pitch at or above the input and less than an octave above it:
\* with p the semitone position of the input and p' that of the output,
\* p <= p' < p + 12.
C26_QuantizerRaisesLessThanAnOctave ==
    (quantizer.scale # <<>> /\ q_pc = "ticked") =>
        /\ step(q_in) <= step(q_out)
        /\ step(q_out) < step(q_in) + 12

\* A C sharp has been quantized to a scale of C alone: it wrapped to the C
\* of the next octave, 11 semitones up.
C26_Witness ==
    /\ q_pc = "ticked"
    /\ quantizer.scale = <<0>>
    /\ q_in.letter = 1
    /\ q_out = LetterOctave(0, q_in.octave + 1)
    /\ step(q_out) = step(q_in) + 11

====
